---- MODULE Spec2Model ----
(***************************************************************************)
(* Device crypto identity store of astarte-device-sdk-go                   *)
(* (device/crypto.go): the crypto directory with device.key, device.pub,   *)
(* device.csr and device.crt, and the operations ClearCrypto,              *)
(* ensureKeyPair, ensureCSR, getCSRString, saveCertificateFromString,      *)
(* hasValidCertificate and getTLSConfig, each as the sequence of its       *)
(* file-system steps.                                                      *)
(***************************************************************************)
EXTENDS Naturals, Sequences, FiniteSets, TLC

\* ------------------------------------------------------------------ bounds
NumKeys == 2          \* distinct RSA keys rsa.GenerateKey can return
MaxTime == 2          \* the clock runs over 0..MaxTime

KeyIds == 1..NumKeys
NotAfters == {MaxTime - 1}
Procs == {1, 2}

\* --------------------------------------------------------------- file names
keyName == "device.key"
pubName == "device.pub"
csrName == "device.csr"
crtName == "device.crt"
Names == {keyName, pubName, csrName, crtName}

\* ------------------------------------------------- DER payloads, PEM, text
\* A text is a sequence of chunks; a chunk is a PEM block (type # "") or a
\* run of bytes that is no complete PEM block (type = "").
NoDER == [kind |-> "none", key |-> 0, cn |-> "", org |-> "", notAfter |-> 0]
Junk == [type |-> "", der |-> NoDER]
NoText == << >>

MarshalPKCS1PrivateKey(k) == [NoDER EXCEPT !.kind = "pkcs1", !.key = k]
MarshalPKIXPublicKey(k) == [NoDER EXCEPT !.kind = "pkix", !.key = k]
X509Certificate(k, t) == [NoDER EXCEPT !.kind = "x509", !.key = k, !.notAfter = t]
Garbage == [NoDER EXCEPT !.kind = "garbage"]

\* fmt.Sprintf("%s/%s", realm, deviceID)
Sprintf(realm, deviceID) == realm \o "/" \o deviceID

\* the x509.CertificateRequest template of ensureCSR
template(dev) == [cn |-> Sprintf(dev.realm, dev.deviceID), org |-> "Devices"]

\* mutant: the request is signed with another key than the one read
CreateCertificateRequest_OtherKey(tmpl, k) ==
    [NoDER EXCEPT !.kind = "csr", !.key = (k % NumKeys) + 1, !.cn = tmpl.cn, !.org = tmpl.org]

\* x509.CreateCertificateRequest: the request carries the public key of the
\* signing key and the subject of the template.
CreateCertificateRequest(tmpl, k) ==
    [NoDER EXCEPT !.kind = "csr", !.key = k, !.cn = tmpl.cn, !.org = tmpl.org]

\* pem.Encode of one block
pemEncode(type, der) == << [type |-> type, der |-> der] >>

\* pem.Decode: the first PEM block of the text, Junk (nil) when there is none
RECURSIVE pemDecode(_)
pemDecode(text) ==
    IF text = << >> THEN Junk
    ELSE IF Head(text).type # "" THEN Head(text)
    ELSE pemDecode(Tail(text))

\* what a write that fails part-way can leave of a text: a proper prefix. The
\* broken piece of a block at its end holds no block for any reader, and is
\* left out, so a prefix is the whole blocks that were written.
Prefixes(text) == { SubSeq(text, 1, n) : n \in 0..(Len(text) - 1) }

\* x509.ParsePKCS1PrivateKey, falling back to x509.ParsePKCS8PrivateKey
ParsePrivateKeyOK(der) == der.kind \in {"pkcs1", "pkcs8rsa", "pkcs8ec"}
IsRSA(der) == der.kind \in {"pkcs1", "pkcs8rsa"}

\* x509.ParseCertificate
ParseCertificateOK(der) == der.kind = "x509"

\* tls.X509KeyPair: the CERTIFICATE blocks of the certificate text, the first
\* private-key block of the key text, the leaf parsed and its public key
\* compared with the private key.
PrivateKeyTypes == {"PRIVATE KEY", "RSA PRIVATE KEY", "EC PRIVATE KEY"}
CertBlocks(text) == SelectSeq(text, LAMBDA c : c.type = "CERTIFICATE")
KeyBlocks(text) == SelectSeq(text, LAMBDA c : c.type \in PrivateKeyTypes)
X509KeyPairErr(certPEM, keyPEM) ==
    IF CertBlocks(certPEM) = << >> THEN "nocert"
    ELSE IF KeyBlocks(keyPEM) = << >> THEN "nokey"
    ELSE IF ~ParseCertificateOK(CertBlocks(certPEM)[1].der) THEN "parse"
    ELSE IF ~ParsePrivateKeyOK(KeyBlocks(keyPEM)[1].der) THEN "parse"
    ELSE IF ~IsRSA(KeyBlocks(keyPEM)[1].der) THEN "mismatch"
    ELSE IF CertBlocks(certPEM)[1].der.key # KeyBlocks(keyPEM)[1].der.key THEN "mismatch"
    ELSE "none"

\* --------------------------------------------------------------- the state
VARIABLES
    d,          \* the Device: realm, deviceID, RootCAs, IgnoreSSLErrors
    faults,     \* whether file-system and crypto calls may fail
    callers,    \* the goroutines that use the Device
    dirExists,  \* the crypto directory exists
    files,      \* the entries of the crypto directory
    now,        \* time.Now()
    pc,         \* where each caller is in its operation
    call,       \* the operation a caller runs, its argument, the directory when it was called
    todo,       \* ClearCrypto: dirFiles still to remove
    buf,        \* a caller's local bytes: key read, CSR to write, certificate loaded
    ret         \* what a caller's last operation returned

vars == <<d, faults, callers, dirExists, files, now, pc, call, todo, buf, ret>>

\* a directory entry: whether it exists, its bytes, and the callers that hold
\* it open for writing
Absent == [exists |-> FALSE, data |-> NoText, fds |-> {}]
File(text) == [exists |-> TRUE, data |-> text, fds |-> {}]
EmptyDir == [n \in Names |-> Absent]

NoCfg == [cert |-> NoDER, key |-> 0, rootCAs |-> "", insecure |-> FALSE]
NoRet == [status |-> "none", err |-> "none", bool |-> FALSE, cfg |-> NoCfg, text |-> NoText]
NoCall == [op |-> "none", arg |-> NoText, pre |-> EmptyDir]

\* the outcomes of a call that can fail
Outcomes == IF faults THEN BOOLEAN ELSE {TRUE}

\* the outcomes of os.MkdirAll, which succeeds on a directory that exists
MkdirAll == IF dirExists THEN {TRUE} ELSE Outcomes

\* the certificate texts a caller hands to saveCertificateFromString
CertTexts ==
    {NoText, <<Junk>>, pemEncode("CERTIFICATE", Garbage)}
    \cup { pemEncode("CERTIFICATE", X509Certificate(k, t)) : k \in KeyIds, t \in NotAfters }
    \cup { pemEncode("PUBLIC KEY", MarshalPKIXPublicKey(1))
             \o pemEncode("CERTIFICATE", X509Certificate(1, t)) : t \in NotAfters }

InitWith(cs, f) ==
    /\ d \in [realm : {"test"}, deviceID : {"dev"}, RootCAs : {"ca"}, IgnoreSSLErrors : BOOLEAN]
    /\ faults = f
    /\ callers = cs
    /\ dirExists = FALSE
    /\ files = EmptyDir
    /\ now = 0
    /\ pc = [p \in Procs |-> "idle"]
    /\ call = [p \in Procs |-> NoCall]
    /\ todo = [p \in Procs |-> {}]
    /\ buf = [p \in Procs |-> NoText]
    /\ ret = [p \in Procs |-> NoRet]

Init == InitWith({1}, TRUE)

\* ----------------------------------------------------------------- helpers
\* getCryptoDir: os.MkdirAll, whose failure is only logged
getCryptoDir(ok) == dirExists \/ ok

Ok == [NoRet EXCEPT !.status = "ok"]
Err(e) == [NoRet EXCEPT !.status = "err", !.err = e]

\* a caller starts an operation; the directory as it is at the call is kept
\* for a caller that has the Device to itself
Call(p, o, a, l) ==
    /\ p \in callers
    /\ pc[p] = "idle"
    /\ pc' = [pc EXCEPT ![p] = l]
    /\ call' = [call EXCEPT ![p] = [op |-> o, arg |-> a,
                                    pre |-> IF callers = {p} THEN files ELSE EmptyDir]]
    /\ ret' = [ret EXCEPT ![p] = NoRet]
    /\ UNCHANGED <<d, faults, callers, dirExists, files, now, todo, buf>>

\* the operation returns r to its caller
Return(p, r) ==
    /\ pc' = [pc EXCEPT ![p] = "idle"]
    /\ ret' = [ret EXCEPT ![p] = r]
    /\ todo' = [todo EXCEPT ![p] = {}]
    /\ buf' = [buf EXCEPT ![p] = NoText]

\* the operation goes on at l with locals t and b
Continue(p, l, t, b) ==
    /\ pc' = [pc EXCEPT ![p] = l]
    /\ todo' = [todo EXCEPT ![p] = t]
    /\ buf' = [buf EXCEPT ![p] = b]
    /\ UNCHANGED ret

\* os.Create / os.OpenFile(O_WRONLY|O_CREATE|O_TRUNC): the entry exists and is
\* empty; an existing file is truncated in place
Create(n, p) ==
    [files EXCEPT ![n] = [exists |-> TRUE, data |-> NoText, fds |-> files[n].fds \cup {p}]]

\* writing text through the open file and closing it; the bytes reach the
\* directory entry only while it is still the file that was opened
Write(n, p, text) ==
    IF files[n].exists /\ p \in files[n].fds
    THEN [files EXCEPT ![n] = [exists |-> TRUE, data |-> text, fds |-> files[n].fds \ {p}]]
    ELSE files

\* os.Remove
Remove(n) == [files EXCEPT ![n] = Absent]

\* ------------------------------------------------------------- ClearCrypto
\* ClearCrypto returned nil: to the caller, or into ensureKeyPair
ClearDone(p) ==
    IF call[p].op = "clear"
    THEN Return(p, Ok)
    ELSE Continue(p, "kp_gen", {}, NoText)

clear(p) == Call(p, "clear", NoText, "cc_open")

\* mutant: the certificate is left out of the entries to remove
ClearCryptoList_KeepsCertificate(p) ==
    /\ pc[p] = "cc_open"
    /\ \E mk \in MkdirAll, io \in Outcomes :
         /\ dirExists' = getCryptoDir(mk)
         /\ IF dirExists' /\ io
            THEN LET dirFiles == {n \in Names \ {crtName} : files[n].exists}
                 IN IF dirFiles = {} THEN ClearDone(p)
                    ELSE Continue(p, "cc_remove", dirFiles, NoText)
            ELSE Return(p, Err("io"))
    /\ UNCHANGED <<d, faults, callers, files, now, call>>

\* getCryptoDir, os.Open, Readdir(0)
ClearCryptoList(p) ==
    /\ pc[p] = "cc_open"
    /\ \E mk \in MkdirAll, io \in Outcomes :
         /\ dirExists' = getCryptoDir(mk)
         /\ IF dirExists' /\ io
            THEN LET dirFiles == {n \in Names : files[n].exists}
                 IN IF dirFiles = {} THEN ClearDone(p)
                    ELSE Continue(p, "cc_remove", dirFiles, NoText)
            ELSE Return(p, Err("io"))
    /\ UNCHANGED <<d, faults, callers, files, now, call>>

\* mutant: the loop goes on past a removal that failed
ClearCryptoRemove_SkipsFailed(p) ==
    /\ pc[p] = "cc_remove"
    /\ \E n \in todo[p], io \in Outcomes :
         /\ files' = IF files[n].exists /\ io THEN Remove(n) ELSE files
         /\ IF todo[p] \ {n} = {} THEN ClearDone(p)
            ELSE Continue(p, "cc_remove", todo[p] \ {n}, NoText)
    /\ UNCHANGED <<d, faults, callers, dirExists, now, call>>

\* mutant: the loop returns after its first removal
ClearCryptoRemove_FirstOnly(p) ==
    /\ pc[p] = "cc_remove"
    /\ \E n \in todo[p], io \in Outcomes :
         IF files[n].exists /\ io
         THEN /\ files' = Remove(n)
              /\ ClearDone(p)
         ELSE /\ files' = files
              /\ Return(p, Err(IF files[n].exists THEN "io" ELSE "notfound"))
    /\ UNCHANGED <<d, faults, callers, dirExists, now, call>>

\* one turn of the loop over dirFiles: os.Remove
ClearCryptoRemove(p) ==
    /\ pc[p] = "cc_remove"
    /\ \E n \in todo[p], io \in Outcomes :
         IF files[n].exists /\ io
         THEN /\ files' = Remove(n)
              /\ IF todo[p] \ {n} = {} THEN ClearDone(p)
                 ELSE Continue(p, "cc_remove", todo[p] \ {n}, NoText)
         ELSE /\ files' = files
              /\ Return(p, Err(IF files[n].exists THEN "io" ELSE "notfound"))
    /\ UNCHANGED <<d, faults, callers, dirExists, now, call>>

\* ----------------------------------------------------------- ensureKeyPair
\* ensureKeyPair returned nil: to the caller, or into ensureCSR
KeyPairDone(p) ==
    IF call[p].op = "ensureKeyPair"
    THEN Return(p, Ok)
    ELSE Continue(p, "csr_stat", {}, NoText)

ensureKeyPair(p) == Call(p, "ensureKeyPair", NoText, "kp_stat")

\* mutant: a missing key is generated without clearing the directory first
ensureKeyPairStat_NoClear(p) ==
    /\ pc[p] = "kp_stat"
    /\ \E mk \in MkdirAll :
         /\ dirExists' = getCryptoDir(mk)
         /\ IF dirExists' /\ files[keyName].exists
            THEN KeyPairDone(p)
            ELSE Continue(p, "kp_gen", {}, NoText)
    /\ UNCHANGED <<d, faults, callers, files, now, call>>

\* mutant: os.Stat looks at device.pub instead of device.key
ensureKeyPairStat_StatPub(p) ==
    /\ pc[p] = "kp_stat"
    /\ \E mk \in MkdirAll :
         /\ dirExists' = getCryptoDir(mk)
         /\ IF dirExists' /\ files[pubName].exists
            THEN KeyPairDone(p)
            ELSE Continue(p, "cc_open", {}, NoText)
    /\ UNCHANGED <<d, faults, callers, files, now, call>>

\* mutant: a key file without a PEM block counts as missing
ensureKeyPairStat_ChecksKey(p) ==
    /\ pc[p] = "kp_stat"
    /\ \E mk \in MkdirAll :
         /\ dirExists' = getCryptoDir(mk)
         /\ IF dirExists' /\ files[keyName].exists /\ pemDecode(files[keyName].data) # Junk
            THEN KeyPairDone(p)
            ELSE Continue(p, "cc_open", {}, NoText)
    /\ UNCHANGED <<d, faults, callers, files, now, call>>

\* os.Stat(keyFile): err == nil exactly when the entry exists; any error sends
\* ensureKeyPair on to ClearCrypto
ensureKeyPairStat(p) ==
    /\ pc[p] = "kp_stat"
    /\ \E mk \in MkdirAll :
         /\ dirExists' = getCryptoDir(mk)
         /\ IF dirExists' /\ files[keyName].exists
            THEN KeyPairDone(p)
            ELSE Continue(p, "cc_open", {}, NoText)
    /\ UNCHANGED <<d, faults, callers, files, now, call>>

\* rsa.GenerateKey
GenerateKey(p) ==
    /\ pc[p] = "kp_gen"
    /\ \E ok \in Outcomes, k \in KeyIds :
         IF ok
         THEN Continue(p, "kp_pubcreate", {}, pemEncode("RSA PRIVATE KEY", MarshalPKCS1PrivateKey(k)))
         ELSE Return(p, Err("generate"))
    /\ UNCHANGED <<d, faults, callers, dirExists, files, now, call>>

\* savePublicPEMKey: os.Create
savePublicPEMKeyCreate(p) ==
    /\ pc[p] = "kp_pubcreate"
    /\ \E mk \in MkdirAll, io \in Outcomes :
         /\ dirExists' = getCryptoDir(mk)
         /\ IF dirExists' /\ io
            THEN /\ files' = Create(pubName, p)
                 /\ Continue(p, "kp_pubwrite", {}, buf[p])
            ELSE /\ files' = files
                 /\ Return(p, Err("io"))
    /\ UNCHANGED <<d, faults, callers, now, call>>

\* savePublicPEMKey: pem.Encode of the PKIX public key, Close
savePublicPEMKeyEncode(p) ==
    /\ pc[p] = "kp_pubwrite"
    /\ LET pemkey == pemEncode("PUBLIC KEY", MarshalPKIXPublicKey(buf[p][1].der.key))
       IN \E io \in Outcomes :
            IF io
            THEN /\ files' = Write(pubName, p, pemkey)
                 /\ Continue(p, "kp_keycreate", {}, buf[p])
            ELSE /\ \E part \in Prefixes(pemkey) : files' = Write(pubName, p, part)
                 /\ Return(p, Err("io"))
    /\ UNCHANGED <<d, faults, callers, dirExists, now, call>>

\* savePEMKey: os.Create
savePEMKeyCreate(p) ==
    /\ pc[p] = "kp_keycreate"
    /\ \E io \in Outcomes :
         IF dirExists /\ io
         THEN /\ files' = Create(keyName, p)
              /\ Continue(p, "kp_keywrite", {}, buf[p])
         ELSE /\ files' = files
              /\ Return(p, Err("io"))
    /\ UNCHANGED <<d, faults, callers, dirExists, now, call>>

\* savePEMKey: pem.Encode of the PKCS#1 private key, Close
savePEMKeyEncode(p) ==
    /\ pc[p] = "kp_keywrite"
    /\ \E io \in Outcomes :
         IF io
         THEN /\ files' = Write(keyName, p, buf[p])
              /\ KeyPairDone(p)
         ELSE /\ \E part \in Prefixes(buf[p]) : files' = Write(keyName, p, part)
              /\ Return(p, Err("io"))
    /\ UNCHANGED <<d, faults, callers, dirExists, now, call>>

\* --------------------------------------------------------------- ensureCSR
ensureCSR(p) == Call(p, "ensureCSR", NoText, "kp_stat")

\* os.Stat(csrFilename)
ensureCSRStat(p) ==
    /\ pc[p] = "csr_stat"
    /\ \E mk \in MkdirAll :
         /\ dirExists' = getCryptoDir(mk)
         /\ IF dirExists' /\ files[csrName].exists
            THEN Return(p, Ok)
            ELSE Continue(p, "csr_readkey", {}, NoText)
    /\ UNCHANGED <<d, faults, callers, files, now, call>>

\* mutant: a corrupt private key makes ensureCSR clear the crypto store, as its
\* error message announces
ensureCSRSign_ClearsStore(p) ==
    /\ pc[p] = "csr_readkey"
    /\ \E mk \in MkdirAll, io \in Outcomes, sg \in Outcomes :
         /\ dirExists' = getCryptoDir(mk)
         /\ IF ~(dirExists' /\ files[keyName].exists /\ io)
            THEN /\ files' = files
                 /\ Return(p, Err(IF dirExists' /\ files[keyName].exists THEN "io" ELSE "notfound"))
            ELSE LET privPem == pemDecode(files[keyName].data)
                 IN IF privPem = Junk
                    THEN /\ files' = EmptyDir
                         /\ Return(p, Err("corrupt"))
                    ELSE /\ files' = files
                         /\ IF ~ParsePrivateKeyOK(privPem.der) THEN Return(p, Err("parse"))
                            ELSE IF ~IsRSA(privPem.der) THEN Return(p, Err("type"))
                            ELSE IF ~sg THEN Return(p, Err("sign"))
                            ELSE Continue(p, "csr_create", {},
                                   pemEncode("CERTIFICATE REQUEST",
                                             CreateCertificateRequest(template(d), privPem.der.key)))
    /\ UNCHANGED <<d, faults, callers, now, call>>

\* reading and parsing the private key, x509.CreateCertificateRequest
ensureCSRSign(p) ==
    /\ pc[p] = "csr_readkey"
    /\ \E mk \in MkdirAll, io \in Outcomes, sg \in Outcomes :
         /\ dirExists' = getCryptoDir(mk)
         /\ IF ~(dirExists' /\ files[keyName].exists /\ io)
            THEN Return(p, Err(IF dirExists' /\ files[keyName].exists THEN "io" ELSE "notfound"))
            ELSE LET privPem == pemDecode(files[keyName].data)
                 IN IF privPem = Junk THEN Return(p, Err("corrupt"))
                    ELSE IF ~ParsePrivateKeyOK(privPem.der) THEN Return(p, Err("parse"))
                    ELSE IF ~IsRSA(privPem.der) THEN Return(p, Err("type"))
                    ELSE IF ~sg THEN Return(p, Err("sign"))
                    ELSE Continue(p, "csr_create", {},
                           pemEncode("CERTIFICATE REQUEST",
                                     CreateCertificateRequest(template(d), privPem.der.key)))
    /\ UNCHANGED <<d, faults, callers, files, now, call>>

\* os.Create(csrFilename)
ensureCSRCreate(p) ==
    /\ pc[p] = "csr_create"
    /\ \E io \in Outcomes :
         IF dirExists /\ io
         THEN /\ files' = Create(csrName, p)
              /\ Continue(p, "csr_write", {}, buf[p])
         ELSE /\ files' = files
              /\ Return(p, Err("io"))
    /\ UNCHANGED <<d, faults, callers, dirExists, now, call>>

\* pem.Encode of the request, Close
ensureCSREncode(p) ==
    /\ pc[p] = "csr_write"
    /\ \E io \in Outcomes :
         IF io
         THEN /\ files' = Write(csrName, p, buf[p])
              /\ Return(p, Ok)
         ELSE /\ \E part \in Prefixes(buf[p]) : files' = Write(csrName, p, part)
              /\ Return(p, Err("io"))
    /\ UNCHANGED <<d, faults, callers, dirExists, now, call>>

\* ------------------------------------------------------------ getCSRString
getCSRString(p) == Call(p, "csrAsString", NoText, "gs_read")

\* mutant: a missing CSR file reads as the empty string
getCSRStringRead_EmptyOnMissing(p) ==
    /\ pc[p] = "gs_read"
    /\ \E mk \in MkdirAll, io \in Outcomes :
         /\ dirExists' = getCryptoDir(mk)
         /\ IF dirExists' /\ files[csrName].exists /\ ~io
            THEN Return(p, Err("io"))
            ELSE Return(p, [Ok EXCEPT !.text = IF dirExists' /\ files[csrName].exists
                                                THEN files[csrName].data ELSE NoText])
    /\ UNCHANGED <<d, faults, callers, files, now, call>>

getCSRStringRead(p) ==
    /\ pc[p] = "gs_read"
    /\ \E mk \in MkdirAll, io \in Outcomes :
         /\ dirExists' = getCryptoDir(mk)
         /\ IF dirExists' /\ files[csrName].exists /\ io
            THEN Return(p, [Ok EXCEPT !.text = files[csrName].data])
            ELSE Return(p, Err(IF dirExists' /\ files[csrName].exists THEN "io" ELSE "notfound"))
    /\ UNCHANGED <<d, faults, callers, files, now, call>>

\* ----------------------------------------------- saveCertificateFromString
saveCertificateFromString(p) ==
    \E certificateString \in CertTexts :
        Call(p, "storeCertificate", certificateString, "sc_open")

\* mutant: the certificate file is opened for writing before the text is decoded
saveCertificateDecode_OpenFirst(p) ==
    /\ pc[p] = "sc_open"
    /\ \E mk \in MkdirAll, io \in Outcomes :
         /\ dirExists' = getCryptoDir(mk)
         /\ IF ~(dirExists' /\ io)
            THEN /\ files' = files
                 /\ Return(p, Err("io"))
            ELSE IF pemDecode(call[p].arg) = Junk
            THEN /\ files' = [files EXCEPT ![crtName] = File(NoText)]
                 /\ Return(p, Err("decode"))
            ELSE /\ files' = Create(crtName, p)
                 /\ Continue(p, "sc_write", {}, NoText)
    /\ UNCHANGED <<d, faults, callers, now, call>>

\* getCryptoDir, pem.Decode, and the open of ioutil.WriteFile
saveCertificateDecode(p) ==
    /\ pc[p] = "sc_open"
    /\ \E mk \in MkdirAll, io \in Outcomes :
         /\ dirExists' = getCryptoDir(mk)
         /\ IF pemDecode(call[p].arg) = Junk
            THEN /\ files' = files
                 /\ Return(p, Err("decode"))
            ELSE IF dirExists' /\ io
            THEN /\ files' = Create(crtName, p)
                 /\ Continue(p, "sc_write", {}, NoText)
            ELSE /\ files' = files
                 /\ Return(p, Err("io"))
    /\ UNCHANGED <<d, faults, callers, now, call>>

\* mutant: only the first PEM block of the text is written
saveCertificateWrite_FirstBlock(p) ==
    /\ pc[p] = "sc_write"
    /\ \E io \in Outcomes :
         IF io
         THEN /\ files' = Write(crtName, p, <<pemDecode(call[p].arg)>>)
              /\ Return(p, Ok)
         ELSE /\ \E part \in Prefixes(call[p].arg) : files' = Write(crtName, p, part)
              /\ Return(p, Err("io"))
    /\ UNCHANGED <<d, faults, callers, dirExists, now, call>>

\* the write and close of ioutil.WriteFile
saveCertificateWrite(p) ==
    /\ pc[p] = "sc_write"
    /\ \E io \in Outcomes :
         IF io
         THEN /\ files' = Write(crtName, p, call[p].arg)
              /\ Return(p, Ok)
         ELSE /\ \E part \in Prefixes(call[p].arg) : files' = Write(crtName, p, part)
              /\ Return(p, Err("io"))
    /\ UNCHANGED <<d, faults, callers, dirExists, now, call>>

\* ------------------------------------------------------ tls.LoadX509KeyPair
\* LoadX509KeyPair failed: hasValidCertificate returns false (err keeps the
\* cause it swallows), getTLSConfig returns the error
LoadFail(p, e) ==
    IF call[p].op = "hasValidCertificate"
    THEN Return(p, [Ok EXCEPT !.err = e])
    ELSE Return(p, Err(e))

\* mutant: InsecureSkipVerify is left at its zero value
LoadDone_NoSkipVerify(p, certPEM, keyPEM) ==
    IF call[p].op = "hasValidCertificate"
    THEN Continue(p, "hv_read", {}, NoText)
    ELSE Return(p, [Ok EXCEPT !.cfg = [cert |-> CertBlocks(certPEM)[1].der,
                                       key |-> KeyBlocks(keyPEM)[1].der.key,
                                       rootCAs |-> d.RootCAs,
                                       insecure |-> FALSE]])

\* LoadX509KeyPair gave the pair of certPEM and keyPEM
LoadDone(p, certPEM, keyPEM) ==
    IF call[p].op = "hasValidCertificate"
    THEN Continue(p, "hv_read", {}, NoText)
    ELSE Return(p, [Ok EXCEPT !.cfg = [cert |-> CertBlocks(certPEM)[1].der,
                                       key |-> KeyBlocks(keyPEM)[1].der.key,
                                       rootCAs |-> d.RootCAs,
                                       insecure |-> d.IgnoreSSLErrors]])

\* reading the certificate file
LoadX509KeyPairCert(p) ==
    /\ pc[p] = "ld_crt"
    /\ \E mk \in MkdirAll, io \in Outcomes :
         /\ dirExists' = getCryptoDir(mk)
         /\ IF dirExists' /\ files[crtName].exists /\ io
            THEN Continue(p, "ld_key", {}, files[crtName].data)
            ELSE LoadFail(p, IF dirExists' /\ files[crtName].exists THEN "io" ELSE "notfound")
    /\ UNCHANGED <<d, faults, callers, files, now, call>>

\* mutant: a certificate that does not load with the key is removed
LoadX509KeyPairKey_RemovesBadCert(p) ==
    /\ pc[p] = "ld_key"
    /\ \E io \in Outcomes :
         IF ~(files[keyName].exists /\ io)
         THEN /\ files' = Remove(crtName)
              /\ LoadFail(p, IF files[keyName].exists THEN "io" ELSE "notfound")
         ELSE IF X509KeyPairErr(buf[p], files[keyName].data) # "none"
         THEN /\ files' = Remove(crtName)
              /\ LoadFail(p, X509KeyPairErr(buf[p], files[keyName].data))
         ELSE /\ files' = files
              /\ LoadDone(p, buf[p], files[keyName].data)
    /\ UNCHANGED <<d, faults, callers, dirExists, now, call>>

\* reading the key file, tls.X509KeyPair
LoadX509KeyPairKey(p) ==
    /\ pc[p] = "ld_key"
    /\ \E io \in Outcomes :
         IF ~(files[keyName].exists /\ io)
         THEN LoadFail(p, IF files[keyName].exists THEN "io" ELSE "notfound")
         ELSE IF X509KeyPairErr(buf[p], files[keyName].data) # "none"
         THEN LoadFail(p, X509KeyPairErr(buf[p], files[keyName].data))
         ELSE LoadDone(p, buf[p], files[keyName].data)
    /\ UNCHANGED <<d, faults, callers, dirExists, files, now, call>>

\* ----------------------------------------------------- hasValidCertificate
\* mutant: the pair is not loaded before the expiry check
hasValidCertificate_SkipsLoad(p) == Call(p, "hasValidCertificate", NoText, "hv_read")

hasValidCertificate(p) == Call(p, "hasValidCertificate", NoText, "ld_crt")

\* mutant: a certificate found expired is removed
hasValidCertificateRead_RemovesExpired(p) ==
    /\ pc[p] = "hv_read"
    /\ \E mk \in MkdirAll, io \in Outcomes :
         /\ dirExists' = getCryptoDir(mk)
         /\ IF ~(dirExists' /\ files[crtName].exists /\ io)
            THEN /\ files' = files
                 /\ Return(p, [Ok EXCEPT !.err = IF dirExists' /\ files[crtName].exists
                                                  THEN "io" ELSE "notfound"])
            ELSE LET block == pemDecode(files[crtName].data)
                 IN IF block = Junk
                    THEN files' = files /\ Return(p, [NoRet EXCEPT !.status = "panic"])
                    ELSE IF ~ParseCertificateOK(block.der)
                    THEN files' = files /\ Return(p, [Ok EXCEPT !.err = "parse"])
                    ELSE /\ files' = IF now < block.der.notAfter THEN files ELSE Remove(crtName)
                         /\ Return(p, [Ok EXCEPT !.bool = now < block.der.notAfter])
    /\ UNCHANGED <<d, faults, callers, now, call>>

\* mutant: a certificate whose notAfter is the current time still counts as valid
hasValidCertificateRead_ValidAtNotAfter(p) ==
    /\ pc[p] = "hv_read"
    /\ \E mk \in MkdirAll, io \in Outcomes :
         /\ dirExists' = getCryptoDir(mk)
         /\ IF ~(dirExists' /\ files[crtName].exists /\ io)
            THEN Return(p, [Ok EXCEPT !.err = IF dirExists' /\ files[crtName].exists
                                               THEN "io" ELSE "notfound"])
            ELSE LET block == pemDecode(files[crtName].data)
                 IN IF block = Junk THEN Return(p, [NoRet EXCEPT !.status = "panic"])
                    ELSE IF ~ParseCertificateOK(block.der) THEN Return(p, [Ok EXCEPT !.err = "parse"])
                    ELSE Return(p, [Ok EXCEPT !.bool = now <= block.der.notAfter])
    /\ UNCHANGED <<d, faults, callers, files, now, call>>

\* ioutil.ReadFile of the certificate, pem.Decode, x509.ParseCertificate,
\* time.Now().Before(cert.NotAfter)
hasValidCertificateRead(p) ==
    /\ pc[p] = "hv_read"
    /\ \E mk \in MkdirAll, io \in Outcomes :
         /\ dirExists' = getCryptoDir(mk)
         /\ IF ~(dirExists' /\ files[crtName].exists /\ io)
            THEN Return(p, [Ok EXCEPT !.err = IF dirExists' /\ files[crtName].exists
                                               THEN "io" ELSE "notfound"])
            ELSE LET block == pemDecode(files[crtName].data)
                 IN IF block = Junk THEN Return(p, [NoRet EXCEPT !.status = "panic"])
                    ELSE IF ~ParseCertificateOK(block.der) THEN Return(p, [Ok EXCEPT !.err = "parse"])
                    ELSE Return(p, [Ok EXCEPT !.bool = now < block.der.notAfter])
    /\ UNCHANGED <<d, faults, callers, files, now, call>>

\* ------------------------------------------------------------ getTLSConfig
getTLSConfig(p) == Call(p, "tlsConfig", NoText, "ld_crt")

\* ------------------------------------------------------------------- clock
Tick ==
    /\ now < MaxTime
    /\ now' = now + 1
    /\ UNCHANGED <<d, faults, callers, dirExists, files, pc, call, todo, buf, ret>>

Next ==
    \/ Tick
    \/ \E p \in Procs :
         \/ clear(p)
         \/ ClearCryptoList(p)
         \/ ClearCryptoRemove(p)
         \/ ensureKeyPair(p)
         \/ ensureKeyPairStat(p)
         \/ GenerateKey(p)
         \/ savePublicPEMKeyCreate(p)
         \/ savePublicPEMKeyEncode(p)
         \/ savePEMKeyCreate(p)
         \/ savePEMKeyEncode(p)
         \/ ensureCSR(p)
         \/ ensureCSRStat(p)
         \/ ensureCSRSign(p)
         \/ ensureCSRCreate(p)
         \/ ensureCSREncode(p)
         \/ getCSRString(p)
         \/ getCSRStringRead(p)
         \/ saveCertificateFromString(p)
         \/ saveCertificateDecode(p)
         \/ saveCertificateWrite(p)
         \/ hasValidCertificate(p)
         \/ getTLSConfig(p)
         \/ LoadX509KeyPairCert(p)
         \/ LoadX509KeyPairKey(p)
         \/ hasValidCertificateRead(p)

\* one caller, calls may fail
Spec == Init /\ [][Next]_vars

\* two callers and no failing call: caller 1 polls hasValidCertificate while
\* caller 2 creates the key, stores certificates and clears
InitRace == InitWith({1, 2}, FALSE)

NextRace ==
    \/ Tick
    \/ hasValidCertificate(1)
    \/ LoadX509KeyPairCert(1)
    \/ LoadX509KeyPairKey(1)
    \/ hasValidCertificateRead(1)
    \/ ensureKeyPair(2)
    \/ ensureKeyPairStat(2)
    \/ ClearCryptoList(2)
    \/ ClearCryptoRemove(2)
    \/ GenerateKey(2)
    \/ savePublicPEMKeyCreate(2)
    \/ savePublicPEMKeyEncode(2)
    \/ savePEMKeyCreate(2)
    \/ savePEMKeyEncode(2)
    \/ saveCertificateFromString(2)
    \/ saveCertificateDecode(2)
    \/ saveCertificateWrite(2)
    \/ clear(2)

SpecRace == InitRace /\ [][NextRace]_vars

\* no failing call, one caller or two: the callers run ensureKeyPair and
\* ensureCSR on the same directory, their file-system steps interleaved
InitConc ==
    /\ \E cs \in {{1}, {1, 2}} : InitWith(cs, FALSE)
    /\ ~d.IgnoreSSLErrors

NextConc ==
    \E p \in Procs :
        \/ ensureKeyPair(p)
        \/ ensureCSR(p)
        \/ ensureKeyPairStat(p)
        \/ ClearCryptoList(p)
        \/ ClearCryptoRemove(p)
        \/ GenerateKey(p)
        \/ savePublicPEMKeyCreate(p)
        \/ savePublicPEMKeyEncode(p)
        \/ savePEMKeyCreate(p)
        \/ savePEMKeyEncode(p)
        \/ ensureCSRStat(p)
        \/ ensureCSRSign(p)
        \/ ensureCSRCreate(p)
        \/ ensureCSREncode(p)

SpecConc == InitConc /\ [][NextConc]_vars

\* one caller starting on a crypto directory whose device.key was left corrupt
\* by an earlier run: an empty file (a key write that was interrupted), bytes
\* without a PEM block, a PEM block that is no private key, a PKCS#8 EC key
CorruptKeyTexts ==
    { NoText,
      <<Junk>>,
      pemEncode("PUBLIC KEY", MarshalPKIXPublicKey(1)),
      pemEncode("PRIVATE KEY", [NoDER EXCEPT !.kind = "pkcs8ec", !.key = 1]) }

InitCorrupt ==
    /\ d \in [realm : {"test"}, deviceID : {"dev"}, RootCAs : {"ca"}, IgnoreSSLErrors : {FALSE}]
    /\ faults = TRUE
    /\ callers = {1}
    /\ dirExists = TRUE
    /\ \E text \in CorruptKeyTexts : files = [EmptyDir EXCEPT ![keyName] = File(text)]
    /\ now = 0
    /\ pc = [p \in Procs |-> "idle"]
    /\ call = [p \in Procs |-> NoCall]
    /\ todo = [p \in Procs |-> {}]
    /\ buf = [p \in Procs |-> NoText]
    /\ ret = [p \in Procs |-> NoRet]

NextCorrupt ==
    \E p \in Procs :
        \/ clear(p)
        \/ ensureKeyPair(p)
        \/ ensureCSR(p)
        \/ ClearCryptoList(p)
        \/ ClearCryptoRemove(p)
        \/ ensureKeyPairStat(p)
        \/ GenerateKey(p)
        \/ savePublicPEMKeyCreate(p)
        \/ savePublicPEMKeyEncode(p)
        \/ savePEMKeyCreate(p)
        \/ savePEMKeyEncode(p)
        \/ ensureCSRStat(p)
        \/ ensureCSRSign(p)
        \/ ensureCSRCreate(p)
        \/ ensureCSREncode(p)

SpecCorrupt == InitCorrupt /\ [][NextCorrupt]_vars


\* ================================================================ properties
\* caller p has returned from operation o and has not called again
Returned(p, o) == p \in callers /\ pc[p] = "idle" /\ call[p].op = o

\* the step in which caller p returns from operation o
Returns(p, o) == p \in callers /\ pc[p] # "idle" /\ pc'[p] = "idle" /\ call[p].op = o

Present(dir) == {n \in Names : dir[n].exists}

\* the text is exactly one PEM block of the given type and DER kind
OneBlock(text, type, kind) ==
    /\ Len(text) = 1
    /\ text[1].type = type
    /\ text[1].der.kind = kind

\* device.key of dir is a complete PKCS#1 RSA private key
CompleteKey(dir) == dir[keyName].exists /\ OneBlock(dir[keyName].data, "RSA PRIVATE KEY", "pkcs1")

\* device.csr of dir is a complete certificate request
CompleteCSR(dir) == dir[csrName].exists /\ OneBlock(dir[csrName].data, "CERTIFICATE REQUEST", "csr")

\* device.csr of dir was generated against the private key in device.key of dir
CSRBoundToKey(dir) ==
    /\ CompleteKey(dir)
    /\ CompleteCSR(dir)
    /\ dir[csrName].data[1].der.key = dir[keyName].data[1].der.key

\* C1: when ensureKeyPair is called without device.key and returns success, the
\* directory holds exactly device.key and device.pub, both of the same new key;
\* a device.csr or device.crt from before the call is gone.
C1_RegenerationDiscardsAll ==
    \A p \in Procs :
        (Returned(p, "ensureKeyPair") /\ ~call[p].pre[keyName].exists /\ ret[p].status = "ok")
        => /\ Present(files) = {keyName, pubName}
           /\ CompleteKey(files)
           /\ OneBlock(files[pubName].data, "PUBLIC KEY", "pkix")
           /\ files[pubName].data[1].der.key = files[keyName].data[1].der.key

C1_Witness ==
    \E p \in Procs :
        /\ Returned(p, "ensureKeyPair") /\ ret[p].status = "ok"
        /\ ~call[p].pre[keyName].exists
        /\ call[p].pre[csrName].exists
        /\ call[p].pre[crtName].exists
        /\ Present(files) = {keyName, pubName}

\* C2: whenever ensureCSR returns success, device.key and device.csr exist and
\* device.csr is a complete CSR generated from the key in device.key, with
\* subject common name "{realm}/{deviceID}".
C2_EnsureCSRLeavesBoundCSR ==
    \A p \in Procs :
        (Returned(p, "ensureCSR") /\ ret[p].status = "ok")
        => /\ CSRBoundToKey(files)
           /\ files[csrName].data[1].der.cn = "test/dev"

\* C3 as stated: between the calls of a single caller, a device.csr that is
\* present comes with a device.key, and was generated against it.
C3_CSRAlwaysBound ==
    (\A p \in callers : pc[p] = "idle")
    => (files[csrName].exists => CSRBoundToKey(files))

\* C3 amended: in every state of a single caller's run, a complete CSR in
\* device.csr next to a device.key was generated against that key, which is a
\* complete private key.
C3_CompleteCSRBoundToPresentKey ==
    (CompleteCSR(files) /\ files[keyName].exists) => CSRBoundToKey(files)

C3_Witness ==
    \E p \in Procs :
        /\ pc[p] = "idle" /\ ret[p].status = "err"
        /\ CSRBoundToKey(files)
        /\ \E n \in Names : call[p].pre[n].exists /\ ~files[n].exists

\* the certificate hasValidCertificate looks at: the first PEM block of
\* device.crt, when it is an X.509 certificate
StoredCertificate(dir) == pemDecode(dir[crtName].data).der
HasCertificate(dir) == dir[crtName].exists /\ StoredCertificate(dir).kind = "x509"

\* device.crt of dir carries a CERTIFICATE block whose public key belongs to
\* the private key in device.key of dir
MatchingPair(dir) ==
    /\ dir[crtName].exists
    /\ dir[keyName].exists
    /\ \E i \in 1..Len(dir[crtName].data) :
         /\ dir[crtName].data[i].type = "CERTIFICATE"
         /\ \A j \in 1..(i - 1) : dir[crtName].data[j].type # "CERTIFICATE"
         /\ dir[crtName].data[i].der.kind = "x509"
         /\ \E k \in 1..Len(dir[keyName].data) :
              /\ dir[keyName].data[k].type \in PrivateKeyTypes
              /\ \A j \in 1..(k - 1) : dir[keyName].data[j].type \notin PrivateKeyTypes
              /\ dir[keyName].data[k].der.kind \in {"pkcs1", "pkcs8rsa"}
              /\ dir[keyName].data[k].der.key = dir[crtName].data[i].der.key

\* C4 as stated: hasValidCertificate returns false while no certificate is
\* stored, true when the stored certificate's notAfter is in the future, false
\* when it is at or before the current time.
C4_ValidIffNotExpired ==
    [][\A p \in Procs :
         Returns(p, "hasValidCertificate")
         => /\ ~files[crtName].exists => ~ret'[p].bool
            /\ (HasCertificate(files) /\ now < StoredCertificate(files).notAfter) => ret'[p].bool
            /\ (HasCertificate(files) /\ now >= StoredCertificate(files).notAfter) => ~ret'[p].bool]_vars

\* C4 amended: hasValidCertificate returns true exactly when device.crt and
\* device.key form a matching pair, the first PEM block of device.crt is an
\* X.509 certificate and its notAfter is after the current time (equal counts
\* as expired), unless a read of a file failed; it returns false otherwise,
\* in particular while no certificate is stored.
C4_ValidIffMatchingAndNotExpired ==
    [][\A p \in Procs :
         Returns(p, "hasValidCertificate")
         => /\ ret'[p].status = "ok"
            /\ ret'[p].err = "io" => ~ret'[p].bool
            /\ ret'[p].err # "io"
               => (ret'[p].bool <=> /\ MatchingPair(files)
                                    /\ HasCertificate(files)
                                    /\ now < StoredCertificate(files).notAfter)]_vars

C4_Witness ==
    \E p \in Procs :
        /\ Returned(p, "hasValidCertificate") /\ ret[p].bool
        /\ Returned(p, "hasValidCertificate") /\ MatchingPair(files)
        /\ now < StoredCertificate(files).notAfter

\* C5: hasValidCertificate always completes with a boolean, whatever another
\* caller's saveCertificateFromString or ClearCrypto does between its reads.
C5_NeverRaises ==
    \A p \in Procs : Returned(p, "hasValidCertificate") => ret[p].status = "ok"

\* C6: saveCertificateFromString of a text without a PEM block fails with the
\* decode error and leaves every file of the directory as it was.
C6_BadPEMLeavesDirectory ==
    \A p \in Procs :
        (Returned(p, "storeCertificate") /\ pemDecode(call[p].arg) = Junk)
        => /\ ret[p].status = "err"
           /\ ret[p].err = "decode"
           /\ files = call[p].pre

C6_Witness ==
    \E p \in Procs :
        /\ Returned(p, "storeCertificate") /\ call[p].arg = <<Junk>>
        /\ ret[p].err = "decode"
        /\ HasCertificate(call[p].pre)
        /\ files[crtName] = call[p].pre[crtName]

\* C7: getTLSConfig fails with the load error when device.key or device.crt is
\* missing or they are no matching pair; with a matching pair it succeeds
\* (unless a read fails) with the pair, the Device's RootCAs and
\* InsecureSkipVerify equal to IgnoreSSLErrors.
C7_TLSConfig ==
    \A p \in Procs :
        Returned(p, "tlsConfig")
        => /\ ~MatchingPair(files)
              => ret[p].status = "err" /\ ret[p].err \in {"notfound", "nocert", "nokey", "parse", "mismatch", "io"}
           /\ (~files[keyName].exists \/ ~files[crtName].exists)
              => ret[p].err \in {"notfound", "io"}
           /\ MatchingPair(files)
              => \/ ret[p].status = "err" /\ ret[p].err = "io"
                 \/ /\ ret[p].status = "ok"
                    /\ ret[p].cfg.insecure = d.IgnoreSSLErrors
                    /\ ret[p].cfg.rootCAs = d.RootCAs
                    /\ ret[p].cfg.cert \in {c.der : c \in {files[crtName].data[i] : i \in 1..Len(files[crtName].data)}}
                    /\ ret[p].cfg.cert.kind = "x509"
                    /\ ret[p].cfg.key = ret[p].cfg.cert.key
                    /\ ret[p].cfg.key = pemDecode(files[keyName].data).der.key

C7_Witness ==
    \E p \in Procs :
        /\ Returned(p, "tlsConfig") /\ ret[p].status = "ok"
        /\ MatchingPair(files)
        /\ d.IgnoreSSLErrors /\ ret[p].cfg.insecure

\* C8: a successful ClearCrypto on a directory with key, public key, CSR and
\* certificate leaves the directory empty; device.crt then stays absent
\* until saveCertificateFromString creates it, and while it is absent
\* hasValidCertificate returns false.
C8_ClearThenInvalid ==
    [][\A p \in Procs :
         /\ (Returns(p, "clear") /\ ret'[p].status = "ok" /\ Present(call[p].pre) = Names)
            => files' = EmptyDir
         /\ (Returns(p, "clear") /\ ret'[p].status = "ok") => ~files'[crtName].exists
         /\ (p \in callers /\ call[p].op # "storeCertificate" /\ call'[p].op # "storeCertificate"
               /\ ~files[crtName].exists)
            => ~files'[crtName].exists
         /\ (Returns(p, "hasValidCertificate") /\ ~files'[crtName].exists)
            => (ret'[p].status = "ok" /\ ~ret'[p].bool)]_vars

C8_Witness ==
    \E p \in Procs :
        /\ Returned(p, "clear") /\ ret[p].status = "ok"
        /\ Present(call[p].pre) = Names
        /\ HasCertificate(call[p].pre)
        /\ files = EmptyDir

CSRForOtherKey(dir) ==
    /\ CompleteKey(dir)
    /\ CompleteCSR(dir)
    /\ dir[csrName].data[1].der.key # dir[keyName].data[1].der.key

\* C11: nothing locks the crypto directory: a device.csr generated against
\* another key than the one now in device.key is reached by two callers whose
\* ensureKeyPair/ensureCSR steps interleave, and by no run of a single caller
\* whose calls do not fail.
C11_MismatchNeedsTwoCallers ==
    CSRForOtherKey(files) => callers = {1, 2}

C11_Witness ==
    /\ callers = {1, 2}
    /\ CSRForOtherKey(files)
    /\ \A p \in callers : Returned(p, "ensureCSR") /\ ret[p].status = "ok"

\* caller p is inside operation o
Inside(p, o) == p \in callers /\ pc[p] # "idle" /\ call[p].op = o

\* C12 as stated: getTLSConfig creates, modifies and deletes no file and no
\* directory, the crypto directory included.
C12_TLSConfigChangesNothing ==
    [][(\E p \in Procs : Inside(p, "tlsConfig")) => UNCHANGED <<files, dirExists>>]_vars

\* C12 amended: getTLSConfig creates, modifies and deletes no file; of the
\* directory it only creates the crypto directory when that is missing.
C12_TLSConfigChangesNoFile ==
    [][(\E p \in Procs : Inside(p, "tlsConfig"))
         => /\ files' = files
            /\ dirExists => dirExists']_vars

C12_Witness ==
    \E p \in Procs :
        /\ Returned(p, "tlsConfig") /\ ret[p].status = "err"
        /\ dirExists
        /\ files = EmptyDir
        /\ call[p].pre = EmptyDir

\* the certificate stored in dir has a notAfter at or before the current time
Expired(dir) == HasCertificate(dir) /\ now >= StoredCertificate(dir).notAfter

OthersUntouched(p, n) == \A m \in Names \ {n} : files[m] = call[p].pre[m]

\* C14: a successful storeCertificate(text) was given a text holding a PEM
\* block, leaves device.crt with exactly that text whatever was stored before,
\* and no storeCertificate, successful or not, touches device.key, device.pub
\* or device.csr; a text holding a PEM block is never rejected for its content.
C14_StoreWritesVerbatim ==
    \A p \in Procs :
        Returned(p, "storeCertificate")
        => /\ OthersUntouched(p, crtName)
           /\ ret[p].status = "ok"
              => /\ pemDecode(call[p].arg) # Junk
                 /\ files[crtName].exists
                 /\ files[crtName].data = call[p].arg
           /\ (pemDecode(call[p].arg) # Junk /\ ret[p].status = "err")
              => ret[p].err = "io"

C14_Witness ==
    \E p \in Procs :
        /\ Returned(p, "storeCertificate") /\ ret[p].status = "ok"
        /\ HasCertificate(call[p].pre)
        /\ call[p].pre[keyName].exists
        /\ Len(call[p].arg) = 2
        /\ files[crtName].data = call[p].arg

\* C15: csrAsString changes no file; with device.csr absent it fails with a
\* not-found or I/O error; when it succeeds it returns exactly the content of
\* device.csr, and short of an I/O fault it succeeds whenever device.csr is
\* present; a successful ensureCSR leaves a device.csr for it to return.
C15_CSRStringReadsFile ==
    \A p \in Procs :
        /\ Returned(p, "csrAsString")
           => /\ files = call[p].pre
              /\ ~files[csrName].exists
                 => (ret[p].status = "err" /\ ret[p].err \in {"notfound", "io"})
              /\ files[csrName].exists
                 => \/ ret[p].status = "ok" /\ ret[p].text = files[csrName].data
                    \/ ret[p].status = "err" /\ ret[p].err = "io"
        /\ (Returned(p, "ensureCSR") /\ ret[p].status = "ok") => files[csrName].exists

C15_Witness ==
    \E p \in Procs :
        /\ Returned(p, "csrAsString") /\ ret[p].status = "ok"
        /\ CSRBoundToKey(files)
        /\ ret[p].text = files[csrName].data

\* C16: clear returns success only with every entry of the directory removed;
\* when a removal fails it returns that I/O error at once, the entries removed
\* before it are gone and the remaining ones are as they were at the call.
C16_ClearStopsAtFirstFailure ==
    [][\A p \in Procs :
         Returns(p, "clear")
         => /\ ret'[p].status = "ok" => Present(files') = {}
            /\ ret'[p].status = "err"
               => /\ ret'[p].err = "io"
                  /\ files' = files
                  /\ \A n \in Names : files[n] = call[p].pre[n] \/ ~files[n].exists
                  /\ pc[p] = "cc_remove"
                     => /\ todo[p] # {}
                        /\ \A n \in todo[p] : files[n] = call[p].pre[n]
                        /\ \A n \in Names \ todo[p] : ~files[n].exists]_vars

C16_Witness ==
    \E p \in Procs :
        /\ Returned(p, "clear") /\ ret[p].status = "err"
        /\ Present(files) # {}
        /\ Present(files) # Present(call[p].pre)
        /\ \A n \in Present(files) : files[n] = call[p].pre[n]

\* tls.X509KeyPair accepts the content of device.crt and device.key of dir
PairLoads(dir) ==
    /\ dir[crtName].exists
    /\ dir[keyName].exists
    /\ X509KeyPairErr(dir[crtName].data, dir[keyName].data) = "none"

\* C17: when hasValidCertificate returns true, the certificate in device.crt
\* carries the public key of the private key in device.key and the two load
\* as a pair; getTLSConfig called on a directory whose pair loads succeeds
\* unless a read fails, whether or not the certificate has expired, and
\* succeeds on no other directory.
C17_ValidImpliesTLSConfig ==
    [][\A p \in Procs :
         /\ (Returns(p, "hasValidCertificate") /\ ret'[p].bool)
            => (MatchingPair(files) /\ PairLoads(files))
         /\ Returns(p, "tlsConfig")
            => /\ ret'[p].status = "ok" => (MatchingPair(files) /\ PairLoads(files))
               /\ (PairLoads(files) /\ ret'[p].status # "ok")
                  => (ret'[p].status = "err" /\ ret'[p].err = "io")]_vars

C17_Witness ==
    \E p \in Procs :
        /\ Returned(p, "hasValidCertificate") /\ ret[p].status = "ok" /\ ret[p].bool
        /\ PairLoads(files)
        /\ files = call[p].pre

\* getTLSConfig succeeded on a matching pair whose certificate has expired
C17_ExpiredPairLoads ==
    \E p \in Procs :
        /\ Returned(p, "tlsConfig") /\ ret[p].status = "ok"
        /\ Expired(files)
        /\ files = call[p].pre

\* why ensureCSR rejects the private key text: "none" when it accepts it
KeyFault(text) ==
    IF pemDecode(text) = Junk THEN "corrupt"
    ELSE IF ~ParsePrivateKeyOK(pemDecode(text).der) THEN "parse"
    ELSE IF ~IsRSA(pemDecode(text).der) THEN "type"
    ELSE "none"

\* device.key of dir exists and is not a usable RSA private key
CorruptKey(dir) == dir[keyName].exists /\ KeyFault(dir[keyName].data) # "none"

C19_KeyGenerationDropsCertificate ==
    [][\A p \in Procs :
         /\ (Returns(p, "storeCertificate") /\ pemDecode(call[p].arg) # Junk)
            => (ret'[p].status = "ok" \/ (ret'[p].status = "err" /\ ret'[p].err = "io"))
         /\ ((Returns(p, "ensureKeyPair") \/ Returns(p, "ensureCSR"))
               /\ ~call[p].pre[keyName].exists /\ ret'[p].status = "ok")
            => (files'[keyName].exists /\ ~files'[crtName].exists)
         /\ (~files[keyName].exists /\ files'[keyName].exists) => ~files'[crtName].exists
         /\ (Returns(p, "hasValidCertificate") /\ ~files[crtName].exists)
            => (ret'[p].status = "ok" /\ ~ret'[p].bool)
         /\ (Returns(p, "tlsConfig") /\ ~files[crtName].exists) => ret'[p].status = "err"
         /\ (p \in callers /\ ~files[crtName].exists /\ files'[crtName].exists)
            => Inside(p, "storeCertificate")]_vars

C19_Witness ==
    \E p \in Procs :
        /\ Returned(p, "ensureCSR") /\ ret[p].status = "ok"
        /\ ~call[p].pre[keyName].exists
        /\ ~call[p].pre[csrName].exists
        /\ HasCertificate(call[p].pre)
        /\ ~files[crtName].exists
        /\ CSRBoundToKey(files)

====
